---- MODULE Spec2Model ----
(***************************************************************************)
(* ChromeLogs: the capture / buffer / flush / serialize pipeline of        *)
(* chrome.js (src/unnamed/part_002, the JavaScript starts at line 237).    *)
(*                                                                         *)
(* The program is a single-threaded Node.js process.  Every event handler  *)
(* runs to its first `await` without interruption; the code after an       *)
(* `await` runs later, as a separate step.  A suspended async function is  *)
(* a "frame" in the set `pending`; the action Resume runs one frame up to  *)
(* its next `await` or to its end.                                         *)
(***************************************************************************)
EXTENDS Integers, Sequences, FiniteSets, TLC

(***************************************************************************)
(* Bounds of the model.                                                    *)
(***************************************************************************)
Tabs == {"A", "B"}
URLs == {"u1"}
\* urls a response may carry: u2 is never requested
AllURLs == URLs \cup {"u2"}
Statuses == {200, 404}
MaxRequests == 7
MaxConsole == 3
MaxTicks == 1
MaxFailures == 1
MaxCap == 3
MaxPushes == 5
MaxLogs == 5
MaxResponses == 2
Items == {1, 2}

(***************************************************************************)
(* MEMORY_CONFIG (part_002:255-264), scaled down: 5000 -> 5, 500 -> 2,     *)
(* 100 -> 5.  batchSize still divides maxEventsBeforeFlush, and            *)
(* 1.2 * maxEventsBeforeFlush is still an integer.                         *)
(***************************************************************************)
maxEventsBeforeFlush == 5
maxLogsPerTabBeforeFlush == 2
batchSize == 5
useCompression == TRUE

(***************************************************************************)
(* Scoping of flushStats.  flushStats is a `const` declared inside the     *)
(* main async arrow function (part_002:1564, the function opens at 1520).  *)
(* flushNetworkEventsForTab is declared at module level (part_002:1396)    *)
(* and reads flushStats at line 1435: the identifier does not resolve      *)
(* there, the read throws a ReferenceError, and the function's own catch   *)
(* (1472-1478) reports "Failed to flush network events".  Lines 1435-1471  *)
(* are modelled all the same, behind this definition.                      *)
(***************************************************************************)
flushStatsInScopeFixed == TRUE
flushStatsInScope == FALSE

(***************************************************************************)
(* Small helpers on sequences.                                             *)
(***************************************************************************)
Tail1(s) == IF s = <<>> THEN <<>> ELSE Tail(s)
Last(s) == s[Len(s)]
Range(s) == {s[i] : i \in 1..Len(s)}
Min(a, b) == IF a <= b THEN a ELSE b
Max(a, b) == IF a >= b THEN a ELSE b
RECURSIVE SumOver(_, _)
SumOver(f, S) == IF S = {} THEN 0
                 ELSE LET x == CHOOSE y \in S : TRUE
                      IN f[x] + SumOver(f, S \ {x})

(***************************************************************************)
(* class BoundedArray (part_002:352-381).  maxSize may be fractional       *)
(* (maxEventsBeforeFlush * 1.2), so it is kept as ten times its value.     *)
(***************************************************************************)
NewBoundedArray(maxSize10) ==
    [kind |-> "BoundedArray", maxSize10 |-> maxSize10, array |-> <<>>,
     overflowed |-> FALSE]

\* push without the eviction of the oldest item
BoundedPushNoEvict(b, item) == [b EXCEPT !.array = Append(b.array, item)]

BoundedPush(b, item) ==
    IF Len(b.array) * 10 >= b.maxSize10
    THEN [b EXCEPT !.array = Append(Tail1(b.array), item), !.overflowed = TRUE]
    ELSE [b EXCEPT !.array = Append(b.array, item)]

BoundedLength(b) == Len(b.array)
BoundedGetItems(b) == b.array
BoundedClear(b) == [b EXCEPT !.array = <<>>, !.overflowed = FALSE]

(***************************************************************************)
(* The containers networkEvents holds for a tab: no entry, the             *)
(* BoundedArray put there by initTabNetworkEvents, or the plain array put  *)
(* there by line 1461.                                                     *)
(***************************************************************************)
NoContainer == [kind |-> "none", maxSize10 |-> 0, array |-> <<>>,
                overflowed |-> FALSE]
PlainArray == [kind |-> "Array", maxSize10 |-> 0, array |-> <<>>,
               overflowed |-> FALSE]
\* tabEvents.push(item) on whichever container the tab holds
ContainerPush(c, item) ==
    IF c.kind = "BoundedArray" THEN BoundedPush(c, item)
    ELSE [c EXCEPT !.array = Append(c.array, item)]
\* tabEvents.length: the getter of BoundedArray or the array's length
ContainerLength(c) == Len(c.array)
\* tabEvents[tabEvents.length - 1]: BoundedArray has no indexed
\* properties, so the expression is undefined (0) for it
ContainerLastRef(c) ==
    IF c.kind = "Array" /\ c.array # <<>> THEN Last(c.array).rid ELSE 0

(***************************************************************************)
(* createHarFile (part_002:907-987).  Only a real array (or a Map) is      *)
(* read; any other object, a BoundedArray included, gives no entries.      *)
(* The entry written keeps request, response and startedDateTime and       *)
(* drops _requestId, pageref and _timestamp.                               *)
(***************************************************************************)
HarEntry(e) == [request |-> e.url, response |-> e.status,
                startedDateTime |-> e.startedDateTime]
HarEntries(arr) == [i \in 1..Len(arr) |-> HarEntry(arr[i])]
createHarFile(entries, pageIds) ==
    [entries |-> IF entries.kind = "Array" THEN HarEntries(entries.array)
                 ELSE <<>>,
     pages |-> pageIds]
\* createHarFile called with a plain array value
createHarFileOfArray(arr, pageIds) ==
    [entries |-> HarEntries(arr), pages |-> pageIds]

(***************************************************************************)
(* writeCompressedFile (part_002:1339-1393).  `large` is the test of       *)
(* lines 1344-1347 apart from useCompression; `env` says which of the      *)
(* operations fail: setupThrows (getZlib, createGzip, createWriteStream    *)
(* or JSON.stringify throws inside the outer try), streamError (the file   *)
(* stream emits "error"), gzipError (the gzip stream emits "error": no     *)
(* listener, no settlement), syncFails (fs.writeFileSync(filePath)         *)
(* throws), backupFails (fs.writeFileSync(filePath + ".backup") throws).   *)
(* The result names how the promise settles, the path it resolves with     *)
(* and the write attempts made, in order.                                  *)
(***************************************************************************)
Attempt(kind, ok) == [kind |-> kind, ok |-> ok]
WriteResult(settled, ext, attempts) ==
    [settled |-> settled, ext |-> ext, attempts |-> attempts]

\* a backup attempt that resolves with the path it was asked to write
BackupWriteReturnsPath(first, env) ==
    IF env.backupFails
    THEN WriteResult("rejected", "", <<first, Attempt("backup", FALSE)>>)
    ELSE WriteResult("resolved", "", <<first, Attempt("backup", TRUE)>>)

\* the backup attempt of the outer catch (lines 1380-1391)
BackupWrite(first, env) ==
    IF env.backupFails
    THEN WriteResult("rejected", "", <<first, Attempt("backup", FALSE)>>)
    ELSE WriteResult("resolved", ".backup", <<first, Attempt("backup", TRUE)>>)

\* the file stream's "error" listener (lines 1354-1366)
StreamErrorFallback(env) ==
    IF env.syncFails
    THEN WriteResult("rejected", "",
                     <<Attempt("gz", FALSE), Attempt("sync", FALSE)>>)
    ELSE WriteResult("resolved", "",
                     <<Attempt("gz", FALSE), Attempt("sync", TRUE)>>)

writeCompressedFile(large, env) ==
    IF useCompression /\ large
    THEN IF env.setupThrows
         THEN BackupWrite(Attempt("gz", FALSE), env)
         ELSE IF env.streamError
              THEN StreamErrorFallback(env)
              ELSE IF env.gzipError
                   THEN WriteResult("never", "", <<Attempt("gz", FALSE)>>)
                   ELSE WriteResult("resolved", ".gz", <<Attempt("gz", TRUE)>>)
    ELSE IF env.syncFails
         THEN BackupWrite(Attempt("sync", FALSE), env)
         ELSE WriteResult("resolved", "", <<Attempt("sync", TRUE)>>)

WriteEnvs == [setupThrows : BOOLEAN, streamError : BOOLEAN,
              gzipError : BOOLEAN, syncFails : BOOLEAN,
              backupFails : BOOLEAN]

(***************************************************************************)
(* The file system as the pipeline sees it during one uninterrupted run    *)
(* of code: "ok" (every write succeeds), "pathFail" (a write to the        *)
(* requested path fails, a write to another name succeeds), "down" (every  *)
(* write and mkdir fails).  Every document of the pipeline has at most     *)
(* ten top-level keys (harData has one, "log"), so `large` is false for    *)
(* all of them and the streams are never used.                             *)
(***************************************************************************)
FsStates == {"ok", "pathFail", "down"}
FsEnv(fs) == [setupThrows |-> FALSE, streamError |-> FALSE,
              gzipError |-> FALSE, syncFails |-> fs # "ok",
              backupFails |-> fs = "down"]
\* number of top-level keys of the documents handed to writeCompressedFile
HarDataKeys == 1
ConsoleDocKeys == 7
IsLarge(keys) == keys > 10

(***************************************************************************)
(* State.                                                                  *)
(***************************************************************************)
VARIABLES
    networkEvents,     \* Map tabId -> container (part_002:250, 1522)
    netOrder,          \* insertion order of the keys of networkEvents
    pages,             \* Map tabId -> page info (part_002:251, 1524)
    consoleLogs,       \* object tabId -> {logs, ...} (part_002:1523)
    conOrder,          \* insertion order of the keys of consoleLogs
    requestUrlMaps,    \* Map tabId -> Map url -> entry (part_002:252)
    uniqueRequestId,   \* part_002:247
    progressStats,     \* part_002:266-274
    flushStats,        \* part_002:1564-1571
    flushedSinceTick,  \* flushStats.lastFlushTime was set since the last tick
    sessionDir,        \* part_002:249
    files,             \* every file write that succeeded, in order
    out,               \* number of console messages printed, by kind
    attempts,          \* history: the flushes that got past their size test
    window,            \* history: requests captured while a flush was awaited
    responses,         \* history: the responses handled, in order
    pending,           \* suspended async functions
    nextFrame,         \* next frame id
    timerActive,       \* autoSaveInterval is set and not cleared
    connected,         \* the browser is connected
    finished,          \* the disconnect handler has resolved
    budget,            \* events the environment may still deliver
    ba, baPushed, baCleared,   \* a BoundedArray on its own, and its history
    wIn, wOut,                 \* writeCompressedFile on its own
    fnIn, fnOut                \* a pure function on its own: argument, result

vars == <<networkEvents, netOrder, pages, consoleLogs, conOrder,
          requestUrlMaps, uniqueRequestId, progressStats, flushStats,
          flushedSinceTick, sessionDir, files, out, attempts, window,
          responses,
          pending, nextFrame, timerActive, connected, finished, budget,
          ba, baPushed, baCleared, wIn, wOut, fnIn, fnOut>>

pipelineVars == <<networkEvents, netOrder, pages, consoleLogs, conOrder,
          requestUrlMaps, uniqueRequestId, progressStats, flushStats,
          flushedSinceTick, sessionDir, files, out, attempts, window,
          responses,
          pending, nextFrame, timerActive, connected, finished, budget>>

(***************************************************************************)
(* The pipeline's state as one record, so that a handler can be written    *)
(* as the composition of the functions it calls.                           *)
(***************************************************************************)
Cur == [ne |-> networkEvents, no |-> netOrder, pg |-> pages,
        cl |-> consoleLogs, co |-> conOrder, um |-> requestUrlMaps,
        rid |-> uniqueRequestId, ps |-> progressStats, fl |-> flushStats,
        recent |-> flushedSinceTick, dir |-> sessionDir, files |-> files,
        out |-> out, att |-> attempts, win |-> window,
        resp |-> responses,
        pending |-> pending, nf |-> nextFrame,
        timer |-> timerActive, conn |-> connected, fin |-> finished]

\* Frame ids only link a frame to the frame it awaits: the counter restarts
\* above the ids in use, and a link to a finished frame is dropped.
FrameIdsOf(fr) == {f.id : f \in fr}
MaxId(fr) == IF fr = {} THEN 0
             ELSE CHOOSE m \in FrameIdsOf(fr) : \A k \in FrameIdsOf(fr) : k <= m
Commit(s) ==
    /\ networkEvents' = s.ne
    /\ netOrder' = s.no
    /\ pages' = s.pg
    /\ consoleLogs' = s.cl
    /\ conOrder' = s.co
    /\ requestUrlMaps' = s.um
    /\ uniqueRequestId' = s.rid
    /\ progressStats' = s.ps
    /\ flushStats' = s.fl
    /\ flushedSinceTick' = s.recent
    /\ sessionDir' = s.dir
    /\ files' = s.files
    /\ out' = s.out
    /\ attempts' = s.att
    /\ responses' = s.resp
    /\ window' = s.win
    /\ pending' = {[f EXCEPT !.wait = IF @ \in FrameIdsOf(s.pending) THEN @
                                       ELSE 0] : f \in s.pending}
    /\ nextFrame' = 1 + MaxId(s.pending)
    /\ timerActive' = s.timer
    /\ connected' = s.conn
    /\ finished' = s.fin

OutKinds == {"netFlushed", "netFlushFailed", "conFlushed", "conFlushFailed",
             "forcedDone", "memoryUsage", "autoSaveError", "saveError",
             "sessionComplete", "summaryError"}
Say(s, kind) == [s EXCEPT !.out[kind] = @ + 1]

\* History of the flushes: which stream and tab, who asked (by), the
\* buffer when the flush started, whether the file system accepted writes,
\* and how the flush ended.
FlushAttempt(stream, tab, force, by, before, fs, outcome, why, doc) ==
    [stream |-> stream, tab |-> tab, force |-> force, by |-> by,
     before |-> before, fsOk |-> fs = "ok", outcome |-> outcome,
     why |-> why, doc |-> doc]
Record(s, a) == [s EXCEPT !.att = Append(@, a)]

\* a file written: where, what, and the document
File(dir, sub, name, seq, ext, kind, tab, doc) ==
    [dir |-> dir, sub |-> sub, name |-> name, seq |-> seq, ext |-> ext,
     kind |-> kind, tab |-> tab, doc |-> doc]
PathOf(f) == <<f.dir, f.sub, f.name, f.seq, f.ext>>
NoDoc == [entries |-> <<>>, pages |-> <<>>]

(***************************************************************************)
(* Frames: the suspended async functions.                                  *)
(*   "netflush"   flushNetworkEventsForTab at its await (line 1445)        *)
(*   "memcheck"   performMemoryCheck at an await (lines 1693, 1707)        *)
(*   "console"    the console handler at its awaits (lines 2053-2074)      *)
(*   "disconnect" the disconnected handler at an await (2590, 2599, 2631)  *)
(* wait is the id of the frame whose completion this one awaits, 0 if the  *)
(* awaited promise is already settled.                                     *)
(***************************************************************************)
Frame(kind, id) ==
    [kind |-> kind, id |-> id, tab |-> "A", force |-> FALSE,
     phase |-> "net", i |-> 1, keys |-> <<>>, wait |-> 0,
     res |-> WriteResult("resolved", "", <<>>), seq |-> 0,
     held |-> NoContainer, detached |-> FALSE, type |-> "log", cid |-> 0,
     fails |-> FALSE, att |-> 0]
FrameIds(s) == {f.id : f \in s.pending}
Ready(s, f) == f.wait = 0 \/ f.wait \notin FrameIds(s)
InFlight(s, t) == {f \in s.pending : f.kind = "netflush" /\ f.tab = t}

(***************************************************************************)
(* flushNetworkEventsForTab (part_002:1396-1479), from its call to its     *)
(* await on writeCompressedFile (line 1445) or to its return.              *)
(* sessionDir is set before any handler is installed, so the first test    *)
(* of line 1398 reduces to the presence of the tab in networkEvents.       *)
(* The write of line 1445 is the synchronous branch of writeCompressedFile *)
(* (harData has one key), so it has happened when the function suspends.   *)
(* The file name is built from the tab (base URL and first six characters  *)
(* of the tab id) and the tab's flush count plus one.                      *)
(***************************************************************************)
\* a flush that drops the url maps of all tabs before it builds its file
flushNetworkEventsForTabClearsMaps(s, tabId, forceSave, fs, by) ==
    LET tabEvents == s.ne[tabId] IN
    IF tabEvents.kind = "none" THEN s
    ELSE IF ContainerLength(tabEvents) < maxEventsBeforeFlush /\ ~forceSave
    THEN s
    ELSE Record(Say([s EXCEPT !.um = [t \in Tabs |-> [u \in AllURLs |-> -1]]],
                    "netFlushFailed"),
                FlushAttempt("net", tabId, forceSave, by, tabEvents.array, fs,
                             "failed", "ReferenceError", <<>>))

flushNetworkEventsForTab(s, tabId, forceSave, fs, by) ==
    LET tabEvents == s.ne[tabId]
        Att(outcome, why, doc) ==
            FlushAttempt("net", tabId, forceSave, by, tabEvents.array, fs,
                         outcome, why, doc)
    IN
    IF tabEvents.kind = "none" THEN s
    ELSE IF ContainerLength(tabEvents) < maxEventsBeforeFlush /\ ~forceSave
    THEN s
    ELSE IF fs = "down"                  \* mkdirSync of line 1431 throws
    THEN Record(Say(s, "netFlushFailed"), Att("failed", "fs", <<>>))
    ELSE IF ~flushStatsInScope           \* ReferenceError at line 1435
    THEN Record(Say(s, "netFlushFailed"),
                Att("failed", "ReferenceError", <<>>))
    ELSE
      LET tabFlushCount == s.fl.perTabNetworkEventsFlushed[tabId]
          harData == createHarFile(tabEvents, <<tabId>>)
          res == writeCompressedFile(IsLarge(HarDataKeys), FsEnv(fs))
          file == File(s.dir, "network_flushes", tabId, tabFlushCount + 1,
                       res.ext, "netflush", tabId, harData)
          s1 == Record(IF res.settled = "resolved"
                       THEN [s EXCEPT !.files = Append(@, file)] ELSE s,
                       Att("inflight", "", harData.entries))
          f == [Frame("netflush", s.nf) EXCEPT !.tab = tabId, !.res = res,
                    !.seq = tabFlushCount, !.att = Len(s1.att)]
      IN [s1 EXCEPT !.pending = @ \cup {f}, !.nf = @ + 1]

(***************************************************************************)
(* flushNetworkEventsForTab after its await (lines 1447-1478).  tabEvents  *)
(* is the container object read at line 1402: its length is read again     *)
(* here, and it is no longer the tab's container if another flush has      *)
(* replaced it in between (f.detached, f.held).                            *)
(***************************************************************************)
ResumeNetFlush(s, f) ==
    LET s0 == [s EXCEPT !.pending = @ \ {f}] IN
    IF f.res.settled # "resolved"
    THEN [Say(s0, "netFlushFailed") EXCEPT !.att[f.att].outcome = "failed",
                                           !.att[f.att].why = "fs"]
    ELSE
      LET n == IF f.detached THEN Len(f.held.array)
               ELSE Len(s.ne[f.tab].array)
          rest == {IF g.kind = "netflush" /\ g.tab = f.tab /\ ~g.detached
                   THEN [g EXCEPT !.detached = TRUE, !.held = s.ne[f.tab]]
                   ELSE g : g \in s0.pending}
      IN [Say(s0, "netFlushed") EXCEPT
            !.fl.perTabNetworkEventsFlushed[f.tab] = f.seq + 1,
            !.fl.totalNetworkEventsFlushed = @ + n,
            !.fl.networkEventFlushes = @ + 1,
            !.recent = TRUE,
            !.att[f.att].outcome = "written",
            !.ne[f.tab] = PlainArray,
            !.pending = rest]

(***************************************************************************)
(* flushConsoleLogsForTab (part_002:1585-1685).  The function has no       *)
(* await: it runs from its call to its end in one piece.  The write is a   *)
(* plain fs.writeFileSync (line 1651) with no fallback.  The number used   *)
(* as flush sequence is flushStats.totalConsoleLogsFlushed[tabId], which   *)
(* lines 1654-1655 advance by the number of records written.               *)
(***************************************************************************)
KnownTypes == {"log", "info", "warning", "error", "debug", "other"}
\* a count that puts a type without a counter under "log"
TypeBucketNoOther(type) == IF type \in KnownTypes THEN type ELSE "log"

TypeBucket(type) == IF type \in KnownTypes THEN type ELSE "other"

EntriesByType(logs) ==
    [k \in KnownTypes |->
        Cardinality({i \in 1..Len(logs) : TypeBucket(logs[i].type) = k})]
ConsoleDoc(flushSequence, logs) ==
    [flushSequence |-> flushSequence, totalEntries |-> Len(logs),
     entriesByType |-> EntriesByType(logs), entries |-> logs]

\* a flush that writes the buffer and leaves it as it is
flushConsoleLogsForTabNoClear(s, tabId, forceSave, fs, by) ==
    IF ~s.cl[tabId].present THEN s
    ELSE IF Len(s.cl[tabId].logs) < maxLogsPerTabBeforeFlush /\ ~forceSave
    THEN s
    ELSE IF fs # "ok"
    THEN Record(Say(s, "conFlushFailed"),  \* mkdirSync or writeFileSync throws
                FlushAttempt("con", tabId, forceSave, by, s.cl[tabId].logs,
                             fs, "failed", "fs", <<>>))
    ELSE
      LET logs == s.cl[tabId].logs
          tabFlushCount == s.fl.totalConsoleLogsFlushed[tabId]
          file == File(s.dir, "console_flushes", tabId, tabFlushCount + 1, "",
                       "conflush", tabId, ConsoleDoc(tabFlushCount + 1, logs))
      IN [Record(Say(s, "conFlushed"),
                 FlushAttempt("con", tabId, forceSave, by, logs, fs,
                              "written", "", logs))
          EXCEPT
            !.files = Append(@, file),
            !.fl.totalConsoleLogsFlushed[tabId] = @ + Len(logs),
            !.fl.consoleLogFlushes = @ + 1,
            !.recent = TRUE]

flushConsoleLogsForTab(s, tabId, forceSave, fs, by) ==
    IF ~s.cl[tabId].present THEN s
    ELSE IF Len(s.cl[tabId].logs) < maxLogsPerTabBeforeFlush /\ ~forceSave
    THEN s
    ELSE IF fs # "ok"
    THEN Record(Say(s, "conFlushFailed"),  \* mkdirSync or writeFileSync throws
                FlushAttempt("con", tabId, forceSave, by, s.cl[tabId].logs,
                             fs, "failed", "fs", <<>>))
    ELSE
      LET logs == s.cl[tabId].logs
          tabFlushCount == s.fl.totalConsoleLogsFlushed[tabId]
          file == File(s.dir, "console_flushes", tabId, tabFlushCount + 1, "",
                       "conflush", tabId, ConsoleDoc(tabFlushCount + 1, logs))
      IN [Record(Say(s, "conFlushed"),
                 FlushAttempt("con", tabId, forceSave, by, logs, fs,
                              "written", "", logs))
          EXCEPT
            !.files = Append(@, file),
            !.fl.totalConsoleLogsFlushed[tabId] = @ + Len(logs),
            !.fl.consoleLogFlushes = @ + 1,
            !.recent = TRUE,
            !.cl[tabId].logs = <<>>]

(***************************************************************************)
(* performMemoryCheck (part_002:1688-1737).  MemCheckRun runs the function *)
(* from the position held in frame f to its next await or to its end.      *)
(* The first loop iterates over the live Map (an entry added while the     *)
(* function is suspended is visited), the second over the keys read when   *)
(* the loop started (Object.keys, line 1698).                              *)
(***************************************************************************)
FirstIdx(seq, from, Q(_)) ==
    IF \E j \in from..Len(seq) : Q(seq[j])
    THEN CHOOSE j \in from..Len(seq) :
            Q(seq[j]) /\ \A k \in from..(j - 1) : ~Q(seq[k])
    ELSE 0

MemCheckCon(s, f, fs) ==
    LET Q(t) == Len(s.cl[t].logs) >= maxLogsPerTabBeforeFlush \/ f.force
        j == FirstIdx(f.keys, f.i, Q)
    IN IF j # 0
       THEN LET s1 == flushConsoleLogsForTab(s, f.keys[j], f.force, fs,
                                                 "memcheck")
            IN [s1 EXCEPT !.pending = @ \cup {[f EXCEPT !.i = j + 1,
                                                        !.wait = 0]}]
       ELSE Say(IF f.force THEN Say(s, "forcedDone") ELSE s, "memoryUsage")

MemCheckRun(s, f, fs) ==
    IF f.phase = "net"
    THEN LET Q(t) == ContainerLength(s.ne[t]) >= maxEventsBeforeFlush
                     \/ f.force
             j == FirstIdx(s.no, f.i, Q)
         IN IF j # 0
            THEN LET s1 == flushNetworkEventsForTab(s, s.no[j], f.force, fs,
                                                   "memcheck")
                     w == IF s1.nf > s.nf THEN s.nf ELSE 0
                 IN [s1 EXCEPT !.pending = @ \cup {[f EXCEPT !.i = j + 1,
                                                             !.wait = w]}]
            ELSE MemCheckCon(s, [f EXCEPT !.phase = "con", !.i = 1,
                                          !.keys = s.co], fs)
    ELSE MemCheckCon(s, f, fs)

\* the call performMemoryCheck(force): the frame's id is s.nf
performMemoryCheck(s, force, fs) ==
    MemCheckRun([s EXCEPT !.nf = @ + 1],
                [Frame("memcheck", s.nf) EXCEPT !.force = force], fs)

(***************************************************************************)
(* The auto-save timer callback (part_002:2444-2553), which runs without   *)
(* an await: the memory check when the last flush is older than half the   *)
(* interval, the loop over the tabs with high activity, the partial        *)
(* archive built from a sample, and the status file.  Ticks are a whole    *)
(* interval apart, so a flush made by a tick is older than half the        *)
(* interval at the next tick (recent = FALSE).                             *)
(***************************************************************************)
SampleSize == 2        \* sampleSize (line 2469), scaled down from 1000

RECURSIVE HighActivityLoop(_, _, _)
HighActivityLoop(s, i, fs) ==
    IF i > Len(s.no) THEN s
    ELSE LET t == s.no[i]
             s1 == IF ContainerLength(s.ne[t]) * 10 >= maxEventsBeforeFlush * 9
                   THEN flushNetworkEventsForTab(s, t, FALSE, fs, "highactivity")
                   ELSE s
         IN HighActivityLoop(s1, i + 1, fs)

\* tabSampleSize of lines 2475-2480; progressStats.networkEvents is the
\* number of requests captured since the start of the session
TabSampleSize(s, t) ==
    LET len == ContainerLength(s.ne[t])
    IN IF len = 0 THEN 0
       ELSE Min(len, (SampleSize * len) \div s.ps.networkEvents)

\* tabEvents.slice exists on arrays only: a BoundedArray with a positive
\* sample size makes line 2485 throw a TypeError
SliceThrows(s) ==
    \E i \in 1..Len(s.no) :
        /\ s.ne[s.no[i]].kind # "Array"
        /\ TabSampleSize(s, s.no[i]) > 0

LastN(arr, n) == SubSeq(arr, Max(1, Len(arr) - n + 1), Len(arr))

RECURSIVE SampleFrom(_, _)
SampleFrom(s, i) ==
    IF i > Len(s.no) THEN <<>>
    ELSE LET t == s.no[i]
             n == TabSampleSize(s, t)
         IN (IF n > 0 THEN LastN(s.ne[t].array, n) ELSE <<>>)
            \o SampleFrom(s, i + 1)

RECURSIVE PageIds(_, _, _)
PageIds(pg, order, i) ==
    IF i > Len(order) THEN <<>>
    ELSE (IF pg[order[i]] # "none" THEN <<order[i]>> ELSE <<>>)
         \o PageIds(pg, order, i + 1)

StatusDoc(s) ==
    [totalNetworkEvents |-> s.ps.networkEvents,
     totalNetworkEventsFlushed |-> s.fl.totalNetworkEventsFlushed,
     totalConsoleLogs |-> s.ps.consoleLogs]

PartialSnapshot(s, fs) ==
    IF SliceThrows(s) THEN Say(s, "autoSaveError")
    ELSE
      LET all == SampleFrom(s, 1)
          sample == IF Len(all) > SampleSize THEN LastN(all, SampleSize)
                    ELSE all
          harData == createHarFileOfArray(sample, PageIds(s.pg, s.no, 1))
          res == writeCompressedFile(IsLarge(HarDataKeys), FsEnv(fs))
          part == File(s.dir, "", "network_final.har.part", 0, res.ext,
                       "partial", "", harData)
          s1 == IF res.settled = "resolved"
                THEN [s EXCEPT !.files = Append(@, part)] ELSE s
          status == File(s.dir, "", "recording_status.json", 0, "",
                         "status", "", StatusDoc(s))
      IN IF fs = "ok" THEN [s1 EXCEPT !.files = Append(@, status)]
         ELSE Say(s1, "autoSaveError")

autoSaveInterval(s, full, fs) ==
    LET s1 == IF full THEN performMemoryCheck(s, FALSE, fs) ELSE s
        s2 == HighActivityLoop(s1, 1, fs)
    IN [PartialSnapshot(s2, fs) EXCEPT !.recent = FALSE]

(***************************************************************************)
(* saveFinalHarFiles (part_002:1213-1336), up to its await on              *)
(* Promise.allSettled: one archive per tab with a non-empty buffer, then   *)
(* the combined archive.  The combined archive reads a BoundedArray        *)
(* through its `array` property (lines 1288-1298).                         *)
(***************************************************************************)
RECURSIVE FinalHarTabs(_, _, _)
FinalHarTabs(s, i, fs) ==
    IF i > Len(s.no) THEN s
    ELSE
      LET t == s.no[i]
          harData == createHarFile(s.ne[t], <<t>>)
          res == writeCompressedFile(IsLarge(HarDataKeys), FsEnv(fs))
          file == File(s.dir, IF fs = "down" THEN "" ELSE "final_har_files",
                       t, 0, res.ext, "finalhar", t, harData)
          s1 == IF ContainerLength(s.ne[t]) = 0 THEN s
                ELSE IF res.settled = "resolved"
                THEN [s EXCEPT !.files = Append(@, file)]
                ELSE Say(s, "saveError")
      IN FinalHarTabs(s1, i + 1, fs)

RECURSIVE AllEvents(_, _)
AllEvents(s, i) ==
    IF i > Len(s.no) THEN <<>>
    ELSE s.ne[s.no[i]].array \o AllEvents(s, i + 1)

\* a finalization that writes the combined archive before the tabs' own
saveFinalHarFilesCombinedFirst(s, fs) ==
    LET doc == createHarFileOfArray(AllEvents(s, 1), PageIds(s.pg, s.no, 1))
        res == writeCompressedFile(IsLarge(HarDataKeys), FsEnv(fs))
        file == File(s.dir, "", "network_all.har", 0, res.ext,
                     "combinedhar", "", doc)
        s1 == IF res.settled = "resolved"
              THEN [s EXCEPT !.files = Append(@, file)]
              ELSE Say(s, "saveError")
    IN FinalHarTabs(s1, 1, fs)

saveFinalHarFiles(s, fs) ==
    LET s1 == FinalHarTabs(s, 1, fs)
        doc == createHarFileOfArray(AllEvents(s, 1), PageIds(s.pg, s.no, 1))
        res == writeCompressedFile(IsLarge(HarDataKeys), FsEnv(fs))
        file == File(s.dir, "", "network_all.har", 0, res.ext,
                     "combinedhar", "", doc)
    IN IF res.settled = "resolved"
       THEN [s1 EXCEPT !.files = Append(@, file)]
       ELSE Say(s1, "saveError")

(***************************************************************************)
(* saveAllConsoleLogs (part_002:990-1141) up to its await: one document    *)
(* per tab with at least one record, then console_all.json.                *)
(***************************************************************************)
RECURSIVE FinalConsoleTabs(_, _, _)
FinalConsoleTabs(s, i, fs) ==
    IF i > Len(s.co) THEN s
    ELSE
      LET t == s.co[i]
          logs == s.cl[t].logs
          res == writeCompressedFile(IsLarge(ConsoleDocKeys), FsEnv(fs))
          file == File(s.dir, IF fs = "down" THEN "" ELSE "console_logs",
                       t, 0, res.ext, "finalcon", t, ConsoleDoc(0, logs))
          s1 == IF Len(logs) = 0 THEN s
                ELSE IF res.settled = "resolved"
                THEN [s EXCEPT !.files = Append(@, file)]
                ELSE Say(s, "saveError")
      IN FinalConsoleTabs(s1, i + 1, fs)

\* a save of the console logs that is given up, silently, when the file
\* system does not accept writes
saveAllConsoleLogsGivenUp(s, fs) ==
    LET s1 == FinalConsoleTabs(s, 1, fs)
        total == SumOver([t \in Tabs |-> Len(s.cl[t].logs)], Tabs)
        res == writeCompressedFile(IsLarge(ConsoleDocKeys), FsEnv(fs))
        file == File(s.dir, "", "console_all.json", 0, res.ext,
                     "combinedcon", "", [totalEntries |-> total])
    IN IF res.settled = "resolved"
       THEN [s1 EXCEPT !.files = Append(@, file)]
       ELSE s

saveAllConsoleLogs(s, fs) ==
    LET s1 == FinalConsoleTabs(s, 1, fs)
        total == SumOver([t \in Tabs |-> Len(s.cl[t].logs)], Tabs)
        res == writeCompressedFile(IsLarge(ConsoleDocKeys), FsEnv(fs))
        file == File(s.dir, "", "console_all.json", 0, res.ext,
                     "combinedcon", "", [totalEntries |-> total])
    IN IF res.settled = "resolved"
       THEN [s1 EXCEPT !.files = Append(@, file)]
       ELSE Say(s1, "saveError")

(***************************************************************************)
(* Initial state: the state of the main function when the handlers are     *)
(* installed and the timer is set (part_002:1520-1524, 1564-1571, 2444).   *)
(* budget bounds what the environment delivers; the profiles keep the      *)
(* network-heavy and the console-heavy runs apart.                         *)
(***************************************************************************)
Profile(tabs, req, con, tk, close, fail, resp) ==
    [tabs |-> tabs, req |-> req, con |-> con, tick |-> tk, close |-> close,
     fail |-> fail, resp |-> resp]
Profiles == {Profile(Tabs, MaxRequests, 0, 1, 0, 0, 0),
             Profile({"A"}, maxEventsBeforeFlush, 0, 1, 0, MaxFailures, 0),
             Profile({"A"}, 0, MaxConsole, 0, 0, 0, 0),
             Profile({"A"}, 0, 3, 0, 0, 1, 0),
             Profile({"A"}, 1, 2, MaxTicks, 0, 1, 0),
             Profile(Tabs, 2, 2, 0, 0, 0, 0),
             Profile(Tabs, 1, 1, 0, 1, 0, 0),
             Profile(Tabs, 2, 0, 0, 0, 0, MaxResponses)}
NoBudget == Profile({}, 0, 0, 0, 0, 0, 0)
ConsoleTypes == {"log"}

\* The environment delivers one event: H(fs) is the state the handler
\* leaves when the file system is in state fs while it runs.  A failing
\* file system is drawn only where it changes the outcome.
Deliver(H(_), kind) ==
    \E fs \in FsStates :
        /\ fs # "ok" => budget.fail > 0 /\ H(fs) # H("ok")
        /\ Commit(H(fs))
        /\ budget' = [budget EXCEPT
                         ![kind] = IF kind = "fail" THEN @ ELSE @ - 1,
                         !.fail = IF fs = "ok" THEN @ ELSE @ - 1]

InitBA ==
    /\ ba = NewBoundedArray(10)
    /\ baPushed = <<>>
    /\ baCleared = FALSE
\* no pure function under study: no argument, no result
InitFn ==
    /\ fnIn = <<>>
    /\ fnOut = [done |-> FALSE]

InitWriter ==
    /\ wIn = [large |-> FALSE, env |-> FsEnv("ok")]
    /\ wOut = WriteResult("none", "", <<>>)
InitPipeline ==
    /\ networkEvents = [t \in Tabs |-> NoContainer]
    /\ netOrder = <<>>
    /\ pages = [t \in Tabs |-> "none"]
    /\ consoleLogs = [t \in Tabs |-> [present |-> FALSE, logs |-> <<>>]]
    /\ conOrder = <<>>
    /\ requestUrlMaps = [t \in Tabs |-> [u \in AllURLs |-> -1]]
    /\ uniqueRequestId = 0
    /\ progressStats = [networkEvents |-> 0, consoleLogs |-> 0,
                        errorLogs |-> 0, warningLogs |-> 0, activeTabs |-> 0]
    /\ flushStats = [networkEventFlushes |-> 0,
                     totalNetworkEventsFlushed |-> 0,
                     perTabNetworkEventsFlushed |-> [t \in Tabs |-> 0],
                     consoleLogFlushes |-> 0,
                     totalConsoleLogsFlushed |-> [t \in Tabs |-> 0]]
    /\ flushedSinceTick = FALSE
    /\ sessionDir = "session"
    /\ files = <<>>
    /\ out = [k \in OutKinds |-> 0]
    /\ attempts = <<>>
    /\ window = {}
    /\ responses = <<>>
    /\ pending = {}
    /\ nextFrame = 1
    /\ timerActive = TRUE
    /\ connected = TRUE
    /\ finished = FALSE

Init ==
    /\ InitPipeline
    /\ budget \in Profiles
    /\ InitBA
    /\ InitWriter
    /\ InitFn

(***************************************************************************)
(* setupPageMonitoring (part_002:1740-2199), the registration of lines     *)
(* 1756-1780.  A target is reported once by the browser.                   *)
(***************************************************************************)
\* a registration that gives the tab a plain array
initTabNetworkEventsPlainArray(s, tabId) ==
    IF s.ne[tabId].kind = "none"
    THEN [s EXCEPT !.ne[tabId] = PlainArray, !.no = Append(@, tabId)]
    ELSE s

initTabNetworkEvents(s, tabId) ==
    IF s.ne[tabId].kind = "none"
    THEN [s EXCEPT !.ne[tabId] = NewBoundedArray(maxEventsBeforeFlush * 12),
                   !.no = Append(@, tabId)]
    ELSE s

\* lines 1756-1780: the count of active tabs, a fresh console record for the
\* tab, the network buffer unless the tab has one, a fresh pages entry
Registration(s, t) ==
    LET s1 == [s EXCEPT !.ps.activeTabs = @ + 1,
                        !.cl[t] = [present |-> TRUE, logs |-> <<>>],
                        !.co = IF s.cl[t].present THEN @ ELSE Append(@, t)]
        s2 == initTabNetworkEvents(s1, t)
    IN [s2 EXCEPT !.pg[t] = "open"]

setupPageMonitoring(t) ==
    /\ connected
    /\ t \in budget.tabs
    /\ pages[t] = "none"
    /\ Commit(Registration(Cur, t))
    /\ UNCHANGED <<budget, ba, baPushed, baCleared, wIn, wOut, fnIn, fnOut>>

(***************************************************************************)
(* The targetdestroyed handler (part_002:2413-2430).                       *)
(***************************************************************************)
\* a handler that forgets the tab it closes
targetdestroyedForgets(t) ==
    /\ connected
    /\ pages[t] = "open"
    /\ budget.close > 0
    /\ Commit([Cur EXCEPT !.ps.activeTabs = Max(0, @ - 1),
                          !.pg[t] = "none",
                          !.cl[t] = [present |-> FALSE, logs |-> <<>>]])
    /\ budget' = [budget EXCEPT !.close = @ - 1]
    /\ UNCHANGED <<ba, baPushed, baCleared, wIn, wOut, fnIn, fnOut>>

targetdestroyed(t) ==
    /\ connected
    /\ pages[t] = "open"
    /\ budget.close > 0
    /\ Commit([Cur EXCEPT !.ps.activeTabs = Max(0, @ - 1),
                          !.pg[t] = "closed"])
    /\ budget' = [budget EXCEPT !.close = @ - 1]
    /\ UNCHANGED <<ba, baPushed, baCleared, wIn, wOut, fnIn, fnOut>>

(***************************************************************************)
(* The request handler (part_002:1814-1931).                               *)
(***************************************************************************)
\* a flush of tab t has been called and the code after its await, in the
\* flush or in the performMemoryCheck that awaits it, has not run yet
FlushAwaited(s, t) ==
    \E f \in s.pending :
        \/ f.kind = "netflush" /\ f.tab = t
        \/ /\ f.kind = "memcheck" /\ f.phase = "net" /\ f.i > 1
           /\ s.no[f.i - 1] = t

RequestHandler(s, t, u, fs) ==
    LET rid == s.rid + 1
        s0 == initTabNetworkEvents([s EXCEPT !.rid = rid], t)
        entry == [rid |-> rid, pageref |-> t, url |-> u, status |-> 0,
                  startedDateTime |-> rid]
        tabEvents == ContainerPush(s0.ne[t], entry)
        s1 == [s0 EXCEPT !.ne[t] = tabEvents,
                         !.um[t][u] = ContainerLastRef(tabEvents),
                         !.ps.networkEvents = @ + 1,
                         !.win = IF FlushAwaited(s, t) THEN @ \cup {rid}
                                 ELSE @]
    IN IF s1.ps.networkEvents % batchSize = 0
          /\ ContainerLength(tabEvents) >= maxEventsBeforeFlush
       THEN flushNetworkEventsForTab(s1, t, FALSE, fs, "push")
       ELSE s1

\* one run of the listener, for a request whose frame belongs to tab t
onRequest(t, u) ==
    /\ connected
    /\ budget.req > 0
    /\ Deliver(LAMBDA fs : RequestHandler(Cur, t, u, fs), "req")
    /\ UNCHANGED <<ba, baPushed, baCleared, wIn, wOut, fnIn, fnOut>>

\* the listener is attached by the registration of the tab (line 1814)
request(t, u) ==
    /\ pages[t] = "open"
    /\ onRequest(t, u)

(***************************************************************************)
(* The response handler (part_002:1934-2020).  It has no await.  The entry *)
(* it completes is the one the url map of the tab holds for the url; a     *)
(* missing key and a stored undefined both fail `if (entry)`.  An          *)
(* exception inside it is swallowed by its catch (2017-2019).              *)
(***************************************************************************)
SetResponse(c, ref, status) ==
    IF c.kind = "none" THEN c
    ELSE [c EXCEPT !.array =
            [k \in DOMAIN c.array |->
                IF c.array[k].rid = ref
                THEN [c.array[k] EXCEPT !.status = status]
                ELSE c.array[k]]]

ResponseHandlerNoLookup(s, t, u, status) ==
    LET tabEvents == s.ne[t]
        ref == IF tabEvents.kind # "none" /\ ContainerLength(tabEvents) > 0
               THEN tabEvents.array[Len(tabEvents.array)].rid ELSE 0
        s0 == [s EXCEPT !.resp = Append(@, [tab |-> t, url |-> u,
                                            ref |-> s.um[t][u]])]
    IN IF ref > 0
       THEN [s0 EXCEPT !.ne[t] = SetResponse(@, ref, status)]
       ELSE s0
ResponseHandler(s, t, u, status) ==
    LET tabEvents == s.ne[t]
        entry == s.um[t][u]
        s0 == [s EXCEPT !.resp = Append(@, [tab |-> t, url |-> u,
                                            ref |-> entry])]
    IN IF tabEvents.kind = "none" THEN s0
       ELSE IF entry > 0
            THEN [s0 EXCEPT !.ne[t] = SetResponse(@, entry, status),
                            !.um[t][u] = -1]
            ELSE s0

responseCounted(t, u, status) ==
    /\ connected
    /\ pages[t] = "open"
    /\ budget.resp > 0
    /\ Commit([ResponseHandler(Cur, t, u, status)
                  EXCEPT !.ps.networkEvents = @ + 1])
    /\ budget' = [budget EXCEPT !.resp = @ - 1]
    /\ UNCHANGED <<ba, baPushed, baCleared, wIn, wOut, fnIn, fnOut>>
response(t, u, status) ==
    /\ connected
    /\ pages[t] = "open"
    /\ budget.resp > 0
    /\ Commit(ResponseHandler(Cur, t, u, status))
    /\ budget' = [budget EXCEPT !.resp = @ - 1]
    /\ UNCHANGED <<ba, baPushed, baCleared, wIn, wOut, fnIn, fnOut>>

(***************************************************************************)
(* The console handler (part_002:2022-2139).  Up to its first await it     *)
(* counts the message; after its awaits it appends the record and checks   *)
(* the threshold.  `fails` stands for an exception thrown inside the try   *)
(* after the counting (line 2036): the catch appends an error record and   *)
(* counts again.                                                           *)
(***************************************************************************)
\* a handler that takes the tab's record for granted
ensureConsoleLogsAssumed(s, t) == s

ensureConsoleLogs(s, t) ==
    IF s.cl[t].present THEN s
    ELSE [s EXCEPT !.cl[t] = [present |-> TRUE, logs |-> <<>>],
                   !.co = Append(@, t)]

\* one run of the listener up to its first await
onConsole(t, type, fails) ==
    /\ connected
    /\ budget.con > 0
    /\ fails => budget.fail > 0
    /\ LET s == Cur
           s1 == [s EXCEPT !.ps.consoleLogs = @ + 1,
                           !.ps.errorLogs = IF type = "error" THEN @ + 1 ELSE @,
                           !.ps.warningLogs =
                               IF type = "warning" THEN @ + 1 ELSE @]
           f == [Frame("console", s.nf) EXCEPT !.tab = t, !.type = type,
                     !.cid = s1.ps.consoleLogs, !.fails = fails]
       IN Commit([s1 EXCEPT !.pending = @ \cup {f}, !.nf = @ + 1])
    /\ budget' = [budget EXCEPT !.con = @ - 1,
                                !.fail = IF fails THEN @ - 1 ELSE @]
    /\ UNCHANGED <<ba, baPushed, baCleared, wIn, wOut, fnIn, fnOut>>

\* the listener is attached by the registration of the tab (line 2023)
console(t, type, fails) ==
    /\ pages[t] = "open"
    /\ onConsole(t, type, fails)

\* a catch that counts the failure and stores nothing
ResumeConsoleDropsFailed(s, f, fs) ==
    LET s0 == ensureConsoleLogs([s EXCEPT !.pending = @ \ {f}], f.tab)
    IN IF f.fails
       THEN [s0 EXCEPT !.ps.consoleLogs = @ + 1, !.ps.errorLogs = @ + 1]
       ELSE LET s1 == [s0 EXCEPT !.cl[f.tab].logs =
                           Append(@, [type |-> f.type, cid |-> f.cid])]
            IN IF Len(s1.cl[f.tab].logs) >= maxLogsPerTabBeforeFlush
               THEN flushConsoleLogsForTab(s1, f.tab, FALSE, fs, "push")
               ELSE s1

ResumeConsole(s, f, fs) ==
    LET s0 == ensureConsoleLogs([s EXCEPT !.pending = @ \ {f}], f.tab)
    IN IF f.fails
       THEN [s0 EXCEPT !.cl[f.tab].logs =
                           Append(@, [type |-> "error", cid |-> f.cid]),
                       !.ps.consoleLogs = @ + 1,
                       !.ps.errorLogs = @ + 1]
       ELSE LET s1 == [s0 EXCEPT !.cl[f.tab].logs =
                           Append(@, [type |-> f.type, cid |-> f.cid])]
            IN IF Len(s1.cl[f.tab].logs) >= maxLogsPerTabBeforeFlush
               THEN flushConsoleLogsForTab(s1, f.tab, FALSE, fs, "push")
               ELSE s1

(***************************************************************************)
(* The pageerror handler (part_002:2142-2166).                             *)
(***************************************************************************)
onPageerror(t) ==
    /\ connected
    /\ budget.con > 0
    /\ LET s0 == ensureConsoleLogs(Cur, t)
       IN Commit([s0 EXCEPT
              !.cl[t].logs = Append(@, [type |-> "pageerror",
                                        cid |-> s0.ps.consoleLogs + 1]),
              !.ps.consoleLogs = @ + 1,
              !.ps.errorLogs = @ + 1])
    /\ budget' = [budget EXCEPT !.con = @ - 1]
    /\ UNCHANGED <<ba, baPushed, baCleared, wIn, wOut, fnIn, fnOut>>

\* the listener is attached by the registration of the tab (line 2142)
pageerror(t) ==
    /\ pages[t] = "open"
    /\ onPageerror(t)

(***************************************************************************)
(* The warning handler (part_002:2169-2192).                               *)
(***************************************************************************)
warning(t) ==
    /\ connected
    /\ pages[t] = "open"
    /\ budget.con > 0
    /\ LET s0 == ensureConsoleLogs(Cur, t)
       IN Commit([s0 EXCEPT
              !.cl[t].logs = Append(@, [type |-> "warning",
                                        cid |-> s0.ps.consoleLogs + 1]),
              !.ps.consoleLogs = @ + 1,
              !.ps.warningLogs = @ + 1])
    /\ budget' = [budget EXCEPT !.con = @ - 1]
    /\ UNCHANGED <<ba, baPushed, baCleared, wIn, wOut, fnIn, fnOut>>

(***************************************************************************)
(* A tick of the auto-save timer.  `full` is the test of line 2451: it is  *)
(* true unless a flush set lastFlushTime since the previous tick.          *)
(***************************************************************************)
tick ==
    /\ timerActive
    /\ budget.tick > 0
    /\ \E full \in (IF flushedSinceTick THEN BOOLEAN ELSE {TRUE}) :
          Deliver(LAMBDA fs : autoSaveInterval(Cur, full, fs), "tick")
    /\ UNCHANGED <<ba, baPushed, baCleared, wIn, wOut, fnIn, fnOut>>

(***************************************************************************)
(* The disconnected handler (part_002:2556-2658).  It clears the timer,    *)
(* replaces sessionDir when the directory is gone, and then awaits in      *)
(* turn performMemoryCheck(true), saveFinalHarFiles() and the write of     *)
(* recording_summary.json; saveAllConsoleLogs is called without await.     *)
(***************************************************************************)
\* a handler that leaves the auto-save timer set
DisconnectStartKeepsTimer(s, dirExists, mkdirOk, fs) ==
    LET s0 == [s EXCEPT !.conn = FALSE,
                        !.dir = IF dirExists THEN @
                                ELSE IF mkdirOk THEN "emergency"
                                ELSE "appdir",
                        !.nf = @ + 1]
        d == [Frame("disconnect", s.nf) EXCEPT !.phase = "har",
                                               !.wait = s0.nf]
        s1 == performMemoryCheck(s0, TRUE, fs)
    IN [s1 EXCEPT !.pending = @ \cup {d}]

DisconnectStart(s, dirExists, mkdirOk, fs) ==
    LET s0 == [s EXCEPT !.conn = FALSE, !.timer = FALSE,
                        !.dir = IF dirExists THEN @
                                ELSE IF mkdirOk THEN "emergency"
                                ELSE "appdir",
                        !.nf = @ + 1]
        d == [Frame("disconnect", s.nf) EXCEPT !.phase = "har",
                                               !.wait = s0.nf]
        s1 == performMemoryCheck(s0, TRUE, fs)
    IN [s1 EXCEPT !.pending = @ \cup {d}]

disconnected ==
    /\ connected
    /\ \E mkdirOk \in BOOLEAN :
          Deliver(LAMBDA fs : DisconnectStart(Cur, fs # "down",
                                              mkdirOk \/ fs # "down", fs),
                  "fail")
    /\ UNCHANGED <<ba, baPushed, baCleared, wIn, wOut, fnIn, fnOut>>

SummaryDoc(s) ==
    [totalNetworkEvents |-> s.ps.networkEvents,
     totalConsoleLogs |-> s.ps.consoleLogs,
     networkFlushes |-> s.fl.networkEventFlushes,
     consoleFlushes |-> s.fl.consoleLogFlushes]

\* a handler that writes the summary before it saves the console logs
ResumeDisconnectSummaryFirst(s, f, fs) ==
    LET s0 == [s EXCEPT !.pending = @ \ {f}] IN
    IF f.phase = "har"
    THEN LET s1 == saveFinalHarFiles(s0, fs)
         IN [s1 EXCEPT !.pending = @ \cup {[f EXCEPT !.phase = "logs",
                                                     !.wait = 0]}]
    ELSE IF f.phase = "logs"
    THEN LET file == File(s.dir, "", "recording_summary.json", 0, "",
                          "summary", "", SummaryDoc(s))
             s1 == IF fs = "ok"
                   THEN Say([s0 EXCEPT !.files = Append(@, file)],
                            "sessionComplete")
                   ELSE Say(s0, "summaryError")
         IN [s1 EXCEPT !.pending = @ \cup {[f EXCEPT !.phase = "summary",
                                                     !.wait = 0]}]
    ELSE [saveAllConsoleLogs(s0, fs) EXCEPT !.fin = TRUE]

ResumeDisconnect(s, f, fs) ==
    LET s0 == [s EXCEPT !.pending = @ \ {f}] IN
    IF f.phase = "har"
    THEN LET s1 == saveFinalHarFiles(s0, fs)
         IN [s1 EXCEPT !.pending = @ \cup {[f EXCEPT !.phase = "logs",
                                                     !.wait = 0]}]
    ELSE IF f.phase = "logs"
    THEN LET s1 == saveAllConsoleLogs(s0, fs)
         IN [s1 EXCEPT !.pending = @ \cup {[f EXCEPT !.phase = "summary",
                                                     !.wait = 0]}]
    ELSE LET file == File(s.dir, "", "recording_summary.json", 0, "",
                          "summary", "", SummaryDoc(s))
             s1 == IF fs = "ok"
                   THEN Say([s0 EXCEPT !.files = Append(@, file)],
                            "sessionComplete")
                   ELSE Say(s0, "summaryError")
         IN [s1 EXCEPT !.fin = TRUE]

(***************************************************************************)
(* One suspended async function continues to its next await or to its end. *)
(***************************************************************************)
ResumeFrame(s, f, fs) ==
    CASE f.kind = "netflush" -> ResumeNetFlush(s, f)
      [] f.kind = "memcheck" -> MemCheckRun([s EXCEPT !.pending = @ \ {f}],
                                            f, fs)
      [] f.kind = "console" -> ResumeConsole(s, f, fs)
      [] OTHER -> ResumeDisconnect(s, f, fs)

Resume ==
    /\ \E f \in pending :
          /\ Ready(Cur, f)
          /\ f.res.settled # "never"
          /\ Deliver(LAMBDA fs : ResumeFrame(Cur, f, fs), "fail")
    /\ UNCHANGED <<ba, baPushed, baCleared, wIn, wOut, fnIn, fnOut>>

Next ==
    \/ \E t \in Tabs : setupPageMonitoring(t)
    \/ \E t \in Tabs : targetdestroyed(t)
    \/ \E t \in Tabs, u \in URLs : request(t, u)
    \/ \E t \in Tabs, u \in AllURLs, status \in Statuses :
          response(t, u, status)
    \/ \E t \in Tabs, type \in ConsoleTypes, fails \in BOOLEAN :
          console(t, type, fails)
    \/ \E t \in Tabs : pageerror(t)
    \/ \E t \in Tabs : warning(t)
    \/ tick
    \/ disconnected
    \/ Resume

Spec == Init /\ [][Next]_vars

(***************************************************************************)
(* BoundedArray on its own: a fresh array of capacity C in 1..MaxCap, then *)
(* pushes of items and clears.  baPushed is the sequence of the items      *)
(* pushed; baCleared tells whether clear() was called.                     *)
(***************************************************************************)
InitBounded ==
    /\ InitPipeline
    /\ budget = NoBudget
    /\ InitWriter
    /\ InitFn
    /\ \E C \in 1..MaxCap : ba = NewBoundedArray(C * 10)
    /\ baPushed = <<>>
    /\ baCleared = FALSE

push(item) ==
    /\ Len(baPushed) < MaxPushes
    /\ ba' = BoundedPush(ba, item)
    /\ baPushed' = Append(baPushed, item)
    /\ UNCHANGED <<baCleared, wIn, wOut, fnIn, fnOut, budget>>
    /\ UNCHANGED pipelineVars

clear ==
    /\ ~baCleared
    /\ baPushed # <<>>
    /\ ba' = BoundedClear(ba)
    /\ baCleared' = TRUE
    /\ UNCHANGED <<baPushed, wIn, wOut, fnIn, fnOut, budget>>
    /\ UNCHANGED pipelineVars

NextBounded == (\E item \in Items : push(item)) \/ clear

SpecBounded == InitBounded /\ [][NextBounded]_vars

(***************************************************************************)
(* writeCompressedFile on its own: every size class and every combination  *)
(* of failing operations, then the call.                                   *)
(***************************************************************************)
InitWrite ==
    /\ InitPipeline
    /\ budget = NoBudget
    /\ InitBA
    /\ InitFn
    /\ wIn \in [large : BOOLEAN, env : WriteEnvs]
    /\ wOut = WriteResult("none", "", <<>>)

write ==
    /\ wOut.settled = "none"
    /\ wOut' = writeCompressedFile(wIn.large, wIn.env)
    /\ UNCHANGED <<wIn, ba, baPushed, baCleared, fnIn, fnOut, budget>>
    /\ UNCHANGED pipelineVars

SpecWrite == InitWrite /\ [][write]_vars

(***************************************************************************)
(* The console document on its own: a buffer of up to MaxLogs records      *)
(* whose types are drawn from LogTypes (the five counted types, "other",   *)
(* and two types the code has no counter for), then the document built by  *)
(* the flush (sequence number 1) and by saveAllConsoleLogs (0).            *)
(***************************************************************************)
LogTypes == {"log", "info", "warning", "error", "debug", "other",
             "pageerror", "trace"}
LogsOfTypes(types) == [i \in 1..Len(types) |-> [type |-> types[i], cid |-> i]]

InitTypes ==
    /\ InitPipeline
    /\ budget = NoBudget
    /\ InitBA
    /\ InitWriter
    /\ \E n \in 0..MaxLogs : fnIn \in [1..n -> LogTypes]
    /\ fnOut = [done |-> FALSE]

buildConsoleDoc(flushSequence) ==
    /\ ~fnOut.done
    /\ fnOut' = [done |-> TRUE,
                 val |-> ConsoleDoc(flushSequence, LogsOfTypes(fnIn))]
    /\ UNCHANGED <<fnIn, ba, baPushed, baCleared, wIn, wOut, budget>>
    /\ UNCHANGED pipelineVars

NextTypes == \E flushSequence \in {0, 1} : buildConsoleDoc(flushSequence)

SpecTypes == InitTypes /\ [][NextTypes]_vars

(***************************************************************************)
(* createHarFile on its own, field by field (part_002:907-987).  A value   *)
(* is <<v>>, and <<>> when the property is undefined.  Numbers of          *)
(* milliseconds are counted in units of 10^-6, so that toFixed(5) rounds   *)
(* to a multiple of 10; -0 and 0 are one number, as they are under === and *)
(* in JSON.                                                                *)
(***************************************************************************)
MaxEntries == 6
MaxPages == 2

\* parseFloat(x.toFixed(5)) scaled wrongly: a change of unit
toFixed5Scaled(x) == x * 10

\* parseFloat(x.toFixed(5))
toFixed5(x) ==
    IF x >= 0 THEN ((x + 5) \div 10) * 10 ELSE 0 - (((0 - x) + 5) \div 10) * 10

\* x || d for a number and for a string
NumOr(x, d) == IF x = <<>> \/ x[1] = 0 THEN d ELSE x[1]
StrOr(x, d) == IF x = <<>> \/ x[1] = "" THEN d ELSE x[1]
\* the response written for an entry that has none (lines 945-957)
DefaultResponse == [status |-> 0, httpVersion |-> "http/1.1"]
\* the response the request handler gives a new entry (lines 1867-1882)
ZeroResponse == [status |-> 0, httpVersion |-> "HTTP/1.1"]

\* lines 923-934
HarTimings(timings) ==
    [blocked |-> <<toFixed5(NumOr(timings.blocked, 0))>>,
     dns |-> <<NumOr(timings.dns, -1)>>,
     wait |-> <<toFixed5(NumOr(timings.wait, 0))>>]
\* lines 937-961
CleanEntry(entry) ==
    [_initiator |-> <<"script">>,
     _priority |-> <<StrOr(entry._priority, "High")>>,
     _resourceType |-> <<StrOr(entry._resourceType, "other")>>,
     connection |-> <<StrOr(entry.connection, "443")>>,
     request |-> entry.request,
     response |-> IF entry.response = <<>> THEN <<DefaultResponse>>
                  ELSE entry.response,
     serverIPAddress |-> <<StrOr(entry.serverIPAddress, "")>>,
     startedDateTime |-> entry.startedDateTime,
     time |-> <<toFixed5(NumOr(entry.time, 0))>>,
     timings |-> HarTimings(entry.timings)]
\* lines 973-981
CleanPage(page) ==
    [startedDateTime |-> page.startedDateTime,
     id |-> page.id,
     title |-> <<StrOr(page.title, "")>>,
     pageTimings |-> [onContentLoad |-> -1, onLoad |-> -1]]

\* lines 909-913: an array as it is, the values of a Map flattened, and
\* nothing for any other object
RECURSIVE Flat(_)
Flat(values) ==
    IF values = <<>> THEN <<>> ELSE Head(values) \o Flat(Tail(values))
EventsArray(entries) ==
    IF entries.kind = "Array" THEN entries.array
    ELSE IF entries.kind = "Map" THEN Flat(entries.values)
    ELSE <<>>
\* lines 920-964: the loop over batches of batchSize entries
RECURSIVE ProcessBatches(_, _, _)
ProcessBatches(eventsArray, i, processedEntries) ==
    IF i >= Len(eventsArray) THEN processedEntries
    ELSE LET last == IF i + batchSize < Len(eventsArray)
                     THEN i + batchSize ELSE Len(eventsArray)
             batch == [k \in 1..(last - i) |-> CleanEntry(eventsArray[i + k])]
         IN ProcessBatches(eventsArray, i + batchSize,
                           processedEntries \o batch)
createHarLog(entries, pgs) ==
    [log |-> [version |-> "1.2",
              creator |-> [name |-> "WebInspector", version |-> "537.36"],
              pages |-> [k \in 1..Len(pgs) |-> CleanPage(pgs[k])],
              entries |-> ProcessBatches(EventsArray(entries), 0, <<>>)]]
JsArray(arr) == [kind |-> "Array", array |-> arr]

\* The entries a buffer can hold: the entry the request handler pushes
\* (lines 1851-1899), the same entry completed by a response (lines
\* 1963-2012), and an entry whose optional properties are undefined or
\* falsy; then every combination of the properties createHarFile defaults
\* or rounds.
NewEntry(id) ==
    [_requestId |-> <<id>>, _priority |-> <<"High">>,
     _resourceType |-> <<"xhr">>, pageref |-> <<"A">>,
     startedDateTime |-> <<id>>, time |-> <<0>>,
     request |-> <<[url |-> "u1"]>>, response |-> <<ZeroResponse>>,
     timings |-> [blocked |-> <<0>>, dns |-> <<-1>>, wait |-> <<0>>],
     serverIPAddress |-> <<"">>, connection |-> <<"443">>,
     _timestamp |-> <<id>>]
CompletedEntry(id) ==
    [NewEntry(id) EXCEPT !.time = <<1234567>>,
                         !.timings.wait = <<987654>>,
                         !.response = <<[status |-> 200,
                                         httpVersion |-> "HTTP/1.1"]>>,
                         !.serverIPAddress = <<"10.0.0.1">>]
SparseEntry(id) ==
    [NewEntry(id) EXCEPT !._priority = <<>>, !._resourceType = <<"">>,
                         !.connection = <<>>, !.response = <<>>,
                         !.time = <<>>, !.serverIPAddress = <<>>,
                         !.timings = [blocked |-> <<>>, dns |-> <<0>>,
                                      wait |-> <<-4>>]]
EntryKinds == {"new", "completed", "sparse"}
EntryOfKind(kind, id) ==
    IF kind = "new" THEN NewEntry(id)
    ELSE IF kind = "completed" THEN CompletedEntry(id)
    ELSE SparseEntry(id)
FieldEntries ==
    {[NewEntry(1) EXCEPT !._priority = p, !.response = r, !.time = tm,
                         !.timings.dns = d, !.timings.wait = w,
                         !.serverIPAddress = ip] :
        p \in {<<>>, <<"">>, <<"Low">>},
        r \in {<<>>, <<ZeroResponse>>},
        tm \in {<<>>, <<0>>, <<15>>, <<-14>>},
        d \in {<<>>, <<0>>, <<3>>},
        w \in {<<4>>, <<123456>>},
        ip \in {<<>>, <<"10.0.0.1">>}}
PageInfo(id, title) ==
    [id |-> <<id>>, title |-> title, startedDateTime |-> <<1>>,
     url |-> <<"u1">>]
PageInfos == {PageInfo("A", <<>>), PageInfo("A", <<"">>), PageInfo("B", <<"T">>)}
\* the containers createHarFile is handed: an array, a Map of two arrays,
\* a BoundedArray
HarInputs(arr) ==
    {JsArray(arr),
     [kind |-> "Map",
      values |-> <<SubSeq(arr, 1, Len(arr) \div 2),
                   SubSeq(arr, Len(arr) \div 2 + 1, Len(arr))>>],
     [kind |-> "BoundedArray", array |-> arr]}

InitHar ==
    /\ InitPipeline
    /\ budget = NoBudget
    /\ InitBA
    /\ InitWriter
    /\ \E arr \in {<<e>> : e \in FieldEntries}
                  \cup UNION {{[i \in 1..n |-> EntryOfKind(ks[i], i)] :
                                  ks \in [1..n -> EntryKinds]} :
                              n \in {0, 1, 2, batchSize, MaxEntries}} :
         \E m \in 0..MaxPages : \E pgs \in [1..m -> PageInfos] :
             \E entries \in HarInputs(arr) :
                 fnIn = [entries |-> entries, pages |-> pgs]
    /\ fnOut = [done |-> FALSE]

encodeHar ==
    /\ ~fnOut.done
    /\ fnOut' = [done |-> TRUE,
                 val |-> createHarLog(fnIn.entries, fnIn.pages)]
    /\ UNCHANGED <<fnIn, ba, baPushed, baCleared, wIn, wOut, budget>>
    /\ UNCHANGED pipelineVars

NextHar == encodeHar

SpecHar == InitHar /\ [][NextHar]_vars

(***************************************************************************)
(* Properties.                                                             *)
(***************************************************************************)

\* C1: every flush of a tab's non-empty network buffer that got past the
\* size test while the file system accepted writes ends with a document
\* written, and the document holds exactly the entries the buffer held when
\* the flush started, in the same order, whichever container holds them.
C1_FlushDocumentIsBuffer ==
    \A i \in DOMAIN attempts :
        (/\ attempts[i].stream = "net"
         /\ attempts[i].fsOk
         /\ attempts[i].before # <<>>) =>
            /\ attempts[i].outcome # "failed"
            /\ attempts[i].doc = HarEntries(attempts[i].before)

C3_KeepsLastC ==
    LET C == ba.maxSize10 \div 10 IN
    (~baCleared /\ Len(baPushed) > C) =>
        /\ BoundedLength(ba) = C
        /\ BoundedGetItems(ba) = LastN(baPushed, C)

\* C3 witness: more pushes than the capacity, no clear, and the oldest item
\* has been dropped.
C3_Witness ==
    /\ ~baCleared
    /\ Len(baPushed) > ba.maxSize10 \div 10
    /\ ba.overflowed
    /\ BoundedGetItems(ba) # baPushed

\* C4: the number of network entries held in memory for a tab is at most
\* 1.2 times maxEventsBeforeFlush, after any requests, ticks and flushes.
C4_NetworkBufferBounded ==
    \A t \in Tabs :
        ContainerLength(networkEvents[t]) * 10 <= maxEventsBeforeFlush * 12

\* C4 witness: a tab's buffer is full, its oldest entry has been evicted,
\* and flushes of the tab have been attempted by a push and by a tick.
C4_Witness ==
    \E t \in Tabs :
        /\ networkEvents[t].overflowed
        /\ ContainerLength(networkEvents[t]) * 10 = maxEventsBeforeFlush * 12
        /\ \E i, j \in DOMAIN attempts :
              /\ attempts[i].stream = "net" /\ attempts[i].tab = t
              /\ attempts[i].by = "push"
              /\ attempts[j].stream = "net" /\ attempts[j].tab = t
              /\ attempts[j].by = "memcheck"

\* C5: a flush that fails on the file system leaves the buffer of its tab
\* and stream as it was and leaves the tab's sequence number and the
\* flushed counts unchanged; and the next flush of that tab and stream that
\* gets past the size test with the file system accepting writes writes a
\* document that holds those entries followed by the ones added since.
C5_FailedFlushRetried ==
    [][/\ \A i \in (Len(attempts) + 1)..Len(attempts') :
             LET a == attempts'[i] IN
             (a.outcome = "failed" /\ ~a.fsOk) =>
                 IF a.stream = "net"
                 THEN /\ networkEvents'[a.tab].array = a.before
                      /\ flushStats'.perTabNetworkEventsFlushed[a.tab]
                           = flushStats.perTabNetworkEventsFlushed[a.tab]
                      /\ flushStats'.totalNetworkEventsFlushed
                           = flushStats.totalNetworkEventsFlushed
                      /\ flushStats'.networkEventFlushes
                           = flushStats.networkEventFlushes
                 ELSE /\ consoleLogs'[a.tab].logs = a.before
                      /\ flushStats'.totalConsoleLogsFlushed[a.tab]
                           = flushStats.totalConsoleLogsFlushed[a.tab]
                      /\ flushStats'.consoleLogFlushes
                           = flushStats.consoleLogFlushes
       /\ \A i, j \in DOMAIN attempts' :
             LET a == attempts'[i]
                 b == attempts'[j]
             IN (/\ i < j
                 /\ a.stream = b.stream /\ a.tab = b.tab
                 /\ a.outcome = "failed" /\ ~a.fsOk
                 /\ b.fsOk
                 /\ \A k \in (i + 1)..(j - 1) :
                       ~(/\ attempts'[k].stream = a.stream
                         /\ attempts'[k].tab = a.tab)) =>
                    /\ b.outcome # "failed"
                    /\ Len(b.doc) = Len(b.before)
                    /\ Len(b.before) >= Len(a.before)
                    /\ SubSeq(b.before, 1, Len(a.before)) = a.before
      ]_vars

\* C6: writeCompressedFile rejects only after its write attempts have all
\* failed with, among them and in this order, a synchronous write to the
\* path and a write to the path with ".backup" (the primary write is the
\* synchronous one for a document that is not compressed); and when one of
\* its attempts succeeds the call resolves.
C6_ThreeAttempts ==
    /\ wOut.settled = "rejected" =>
          /\ \A i \in DOMAIN wOut.attempts : ~wOut.attempts[i].ok
          /\ \E i, j \in DOMAIN wOut.attempts :
                /\ i < j
                /\ wOut.attempts[i].kind = "sync"
                /\ wOut.attempts[j].kind = "backup"
    /\ (\E i \in DOMAIN wOut.attempts : wOut.attempts[i].ok) =>
          wOut.settled = "resolved"

\* C7: a request push that brings a tab's buffer to maxEventsBeforeFlush
\* entries starts, in the same handler run, a flush of that tab with those
\* entries; with the file system accepting writes the flush does not fail
\* and its document has maxEventsBeforeFlush entries; and when the flush
\* completes the tab's buffer is empty.  Other tabs do not matter.
C7_ThresholdPushFlushes ==
    [][/\ \A t \in Tabs :
             (/\ progressStats'.networkEvents
                    = progressStats.networkEvents + 1
              /\ networkEvents'[t] # networkEvents[t]
              /\ ContainerLength(networkEvents[t])
                    = maxEventsBeforeFlush - 1) =>
                 /\ Len(attempts') = Len(attempts) + 1
                 /\ LET a == attempts'[Len(attempts')] IN
                       /\ a.stream = "net" /\ a.tab = t /\ a.by = "push"
                       /\ Len(a.before) = maxEventsBeforeFlush
                       /\ a.fsOk =>
                             /\ a.outcome # "failed"
                             /\ Len(a.doc) = maxEventsBeforeFlush
       /\ \A i \in DOMAIN attempts :
             (/\ attempts[i].by = "push"
              /\ attempts[i].outcome = "inflight"
              /\ attempts'[i].outcome = "written") =>
                 ContainerLength(networkEvents'[attempts[i].tab]) = 0
      ]_vars

\* C8: a forced flush of a tab whose buffer of the stream is empty writes
\* no file and changes no sequence number and no flush counter.
C8_ForcedEmptyIsNoOp ==
    [][\A i \in (Len(attempts) + 1)..Len(attempts') :
          (attempts'[i].force /\ attempts'[i].before = <<>>) =>
              /\ files' = files
              /\ flushStats' = flushStats
      ]_vars

\* C9: when performMemoryCheck(true) has completed and the file system
\* accepted every write, each network or console buffer that was non-empty
\* when its forced flush started is in a flush document of its tab, and
\* every tab's network buffer is empty.
C9_ForcedFlushesAll ==
    (/\ out.forcedDone > 0
     /\ \A i \in DOMAIN attempts : attempts[i].fsOk) =>
        /\ \A i \in DOMAIN attempts :
              (attempts[i].force /\ attempts[i].before # <<>>) =>
                  /\ attempts[i].outcome = "written"
                  /\ \E k \in DOMAIN files :
                        /\ files[k].kind =
                              (IF attempts[i].stream = "net"
                               THEN "netflush" ELSE "conflush")
                        /\ files[k].tab = attempts[i].tab
                        /\ Len(files[k].doc.entries)
                              = Len(attempts[i].before)
        /\ \A t \in Tabs : ContainerLength(networkEvents[t]) = 0

C11_FlushPathsDistinct ==
    \A i, j \in DOMAIN files :
        (/\ i < j
         /\ files[i].kind \in {"netflush", "conflush"}
         /\ files[j].kind \in {"netflush", "conflush"}) =>
            PathOf(files[i]) # PathOf(files[j])

C13_SummaryIsLast ==
    [][(\E k \in DOMAIN files : files[k].kind = "summary") =>
          /\ \A k \in (Len(files) + 1)..Len(files') :
                files'[k].kind \notin {"finalhar", "combinedhar",
                                       "finalcon", "combinedcon", "summary"}
          /\ \A i \in (Len(attempts) + 1)..Len(attempts') :
                ~attempts'[i].force
          /\ \A f \in pending :
                /\ f.kind # "disconnect"
                /\ ~(f.kind = "memcheck" /\ f.force)
      ]_vars

\* C13 witness: the summary is written, after a forced console flush that
\* wrote a tab's records, the final archive of a tab, the combined archive
\* and the combined console file.
C13_Witness ==
    /\ \E k \in DOMAIN files : files[k].kind = "summary"
    /\ \E k \in DOMAIN files : files[k].kind = "finalhar"
    /\ \E k \in DOMAIN files : files[k].kind = "combinedhar"
    /\ \E k \in DOMAIN files : files[k].kind = "combinedcon"
    /\ \E i \in DOMAIN attempts :
          /\ attempts[i].stream = "con" /\ attempts[i].force
          /\ attempts[i].outcome = "written" /\ attempts[i].before # <<>>

\* C14: a session whose disconnected handler has ended has written
\* recording_summary.json or else emergency files (the network.har and
\* console.json of the emergency save).
C14_SummaryOrEmergency ==
    finished =>
        \/ \E k \in DOMAIN files : files[k].kind = "summary"
        \/ \E k \in DOMAIN files : files[k].kind = "emergency"

\* C15: in a console document, flush or final, each of log, info,
\* warning, error and debug counts the entries of that type, other counts
\* the entries of any other type, the six counts sum to totalEntries, and
\* totalEntries is the number of entries; three error and two warning
\* records give log 0, info 0, warning 2, error 3, debug 0, other 0.
C15_EntriesByType ==
    fnOut.done =>
        LET doc == fnOut.val
            Count(T) == Cardinality({i \in DOMAIN fnIn : fnIn[i] \in T})
            Counted == {"log", "info", "warning", "error", "debug"}
        IN /\ doc.totalEntries = Len(doc.entries)
           /\ Len(doc.entries) = Len(fnIn)
           /\ DOMAIN doc.entriesByType = Counted \cup {"other"}
           /\ \A k \in Counted : doc.entriesByType[k] = Count({k})
           /\ doc.entriesByType["other"] = Count(LogTypes \ Counted)
           /\ SumOver(doc.entriesByType, DOMAIN doc.entriesByType)
                 = doc.totalEntries
           /\ (Count({"error"}) = 3 /\ Count({"warning"}) = 2
               /\ Len(fnIn) = 5) =>
                 doc.entriesByType =
                     [log |-> 0, info |-> 0, warning |-> 2, error |-> 3,
                      debug |-> 0, other |-> 0]

\* C15 witness: the document of three error and two warning records, as a
\* final document.
C15_Witness ==
    /\ fnOut.done
    /\ fnIn = <<"error", "warning", "error", "error", "warning">>
    /\ fnOut.val.flushSequence = 0
    /\ fnOut.val.entriesByType["error"] = 3

\* The sampling rule as the specification words it: with budget S, a tab
\* holding n of the N entries buffered over all tabs gives its
\* min(n, floor(S * n / N)) most recent entries.
RECURSIVE SampleByRule(_, _, _, _)
SampleByRule(ne, order, i, S) ==
    IF i > Len(order) THEN <<>>
    ELSE LET N == SumOver([t \in Tabs |-> ContainerLength(ne[t])], Tabs)
             n == ContainerLength(ne[order[i]])
             share == IF N = 0 THEN 0 ELSE Min(n, (S * n) \div N)
         IN (IF share > 0 THEN LastN(ne[order[i]].array, share) ELSE <<>>)
            \o SampleByRule(ne, order, i + 1, S)

\* C16: a timer tick that finds the file system writable writes a partial
\* archive whose entries are, tab after tab, the min(n, floor(S * n / N))
\* most recent entries of each tab, n being the tab's buffered entries and N
\* the entries buffered over all tabs.
C16_ProportionalSample ==
    [][(budget'.tick < budget.tick /\ budget'.fail = budget.fail) =>
          \E k \in (Len(files) + 1)..Len(files') :
              /\ files'[k].kind = "partial"
              /\ files'[k].doc.entries =
                    HarEntries(SampleByRule(networkEvents', netOrder', 1,
                                            SampleSize))
      ]_vars

\* C17: when writeCompressedFile resolves, its last write attempt is the
\* one that succeeded, every earlier one failed, and the path it resolves
\* with is the path that attempt wrote: path.gz for the compressed write,
\* the path for the synchronous write, path.backup for the backup write.
C17_ReturnedPathIsWritten ==
    wOut.settled = "resolved" =>
        LET n == Len(wOut.attempts)
            a == wOut.attempts[n]
        IN /\ n >= 1
           /\ a.ok
           /\ \A i \in 1..(n - 1) : ~wOut.attempts[i].ok
           /\ wOut.ext = (CASE a.kind = "gz" -> ".gz"
                            [] a.kind = "sync" -> ""
                            [] a.kind = "backup" -> ".backup")

\* C17 witness: the primary write failed, the backup write succeeded and
\* the call resolved with the backup's path.
C17_Witness ==
    /\ wOut.settled = "resolved"
    /\ Len(wOut.attempts) = 2
    /\ ~wOut.attempts[1].ok
    /\ wOut.attempts[2] = Attempt("backup", TRUE)
    /\ wOut.ext = ".backup"

C20_ArchiveEncodingIdempotent ==
    fnOut.done =>
        createHarLog(JsArray(fnOut.val.log.entries), fnOut.val.log.pages)
            = fnOut.val
\* a batch longer than batchSize with an entry that had no response and a
\* page that had no title: the first encoding changed them
C20_Witness ==
    /\ fnOut.done
    /\ fnIn.entries.kind = "Array"
    /\ Len(fnOut.val.log.entries) > batchSize
    /\ \E k \in DOMAIN fnIn.entries.array :
          /\ fnIn.entries.array[k].response = <<>>
          /\ fnOut.val.log.entries[k].response = <<DefaultResponse>>
    /\ \E k \in DOMAIN fnIn.pages : fnIn.pages[k].title = <<>>

\* C21: the record that a push on a full BoundedArray evicted an item is
\* kept: once the overflow information of the buffer is set, no later push
\* or clear unsets it.
C21_EvictionStaysObservable ==
    [][ba.overflowed => ba'.overflowed]_vars

\* C22: the final archive written for a tab holds exactly the entries of
\* that tab's network buffer, in buffer order, and the combined archive
\* holds the entries of all the buffers, each once, whichever container a
\* tab has.
C22_FinalArchivesHoldBuffers ==
    \A k \in DOMAIN files :
        /\ files[k].kind = "finalhar" =>
              files[k].doc.entries
                  = HarEntries(networkEvents[files[k].tab].array)
        /\ files[k].kind = "combinedhar" =>
              files[k].doc.entries = HarEntries(AllEvents(Cur, 1))

\* C23: every entry of an archive document has the _requestId, the pageref
\* and the _timestamp of the captured entry it was built from.
C23_EntriesKeepAttribution ==
    fnOut.done =>
        \A k \in DOMAIN fnOut.val.log.entries :
            LET e == fnOut.val.log.entries[k]
                src == EventsArray(fnIn.entries)[k]
            IN /\ {"_requestId", "pageref", "_timestamp"} \subseteq DOMAIN e
               /\ e._requestId = src._requestId
               /\ e.pageref = src.pageref
               /\ e._timestamp = src._timestamp

\* C24: as long as no console flush has failed to write, every handled
\* event leaves each tab's console buffer shorter than
\* maxLogsPerTabBeforeFlush: the append that reaches the threshold flushes.
C24_ConsoleBelowThreshold ==
    out.conFlushFailed = 0 =>
        \A t \in Tabs : Len(consoleLogs[t].logs) < maxLogsPerTabBeforeFlush

\* C25: a console flush is one step.  The document of every flush that
\* wrote is the buffer as it was when the flush was called, that step
\* leaves the buffer empty, and for every tab the records of its flush
\* documents followed by the records of its buffer only ever grow at the
\* end and never hold a record twice: none is lost, none is written to two
\* flush documents.
RECURSIVE FlushedRecords(_, _, _)
FlushedRecords(fls, t, k) ==
    IF k > Len(fls) THEN <<>>
    ELSE (IF fls[k].kind = "conflush" /\ fls[k].tab = t
          THEN fls[k].doc.entries ELSE <<>>) \o FlushedRecords(fls, t, k + 1)
C25_ConsoleFlushAtomic ==
    [][\A t \in Tabs :
          LET old == FlushedRecords(files, t, 1) \o consoleLogs[t].logs
              new == FlushedRecords(files', t, 1) \o consoleLogs'[t].logs
          IN /\ Len(old) <= Len(new)
             /\ SubSeq(new, 1, Len(old)) = old
             /\ \A i, j \in DOMAIN new : i < j => new[i].cid # new[j].cid
             /\ \A i \in (Len(attempts) + 1)..Len(attempts') :
                   (/\ attempts'[i].stream = "con" /\ attempts'[i].tab = t
                    /\ attempts'[i].outcome = "written") =>
                       /\ attempts'[i].doc = attempts'[i].before
                       /\ attempts'[i].before
                             = SubSeq(new, Len(new) - Len(attempts'[i].before) + 1,
                                      Len(new))
                       /\ consoleLogs'[t].logs = <<>>
      ]_vars
\* a flush document with records was written for a tab while another
\* console message of the tab was being handled, and that record is in the
\* buffer now
C25_Witness ==
    \E t \in Tabs :
        /\ FlushedRecords(files, t, 1) # <<>>
        /\ consoleLogs[t].logs # <<>>
        /\ \E i \in DOMAIN consoleLogs[t].logs :
              \E k \in DOMAIN FlushedRecords(files, t, 1) :
                  consoleLogs[t].logs[i].cid
                      < FlushedRecords(files, t, 1)[k].cid

\* C26: once console flushes fail to write, a tab's console buffer still
\* holds no more records than a fixed capacity, taken here as the 1.2 times
\* the flush threshold that bounds a network buffer.
C26_ConsoleBufferBounded ==
    out.conFlushFailed > 0 =>
        \A t \in Tabs :
            Len(consoleLogs[t].logs) * 10 <= maxLogsPerTabBeforeFlush * 12

\* C27: a timer tick flushes a tab whose buffer is non-empty and below the
\* size threshold when the tab has been inactive for longer than
\* maxInactiveTimeMs.  No step of the program reads a tab's lastActivity
\* or maxInactiveTimeMs, so any tick may be one that finds the tab
\* inactive for that long; the property asks the flush of every tick.
C27_IdleTabFlushedAtTick ==
    [][budget'.tick < budget.tick =>
          \A t \in Tabs :
              /\ (/\ consoleLogs[t].logs # <<>>
                  /\ Len(consoleLogs[t].logs) < maxLogsPerTabBeforeFlush) =>
                     \E i \in (Len(attempts) + 1)..Len(attempts') :
                         attempts'[i].stream = "con" /\ attempts'[i].tab = t
              /\ (/\ ContainerLength(networkEvents[t]) > 0
                  /\ ContainerLength(networkEvents[t]) < maxEventsBeforeFlush) =>
                     \E i \in (Len(attempts) + 1)..Len(attempts') :
                         attempts'[i].stream = "net" /\ attempts'[i].tab = t
      ]_vars

\* C28: for each tab and each stream, the k-th flush document written has
\* sequence number k.
C28_SequentialFlushNumbers ==
    \A k \in DOMAIN files :
        files[k].kind \in {"netflush", "conflush"} =>
            files[k].seq =
                Cardinality({i \in 1..k : /\ files[i].kind = files[k].kind
                                          /\ files[i].tab = files[k].tab})

\* C29: the step in which the disconnected handler starts clears the
\* auto-save timer, and from then on no tick is handled: no step takes a
\* tick, starts a high-activity flush or writes a partial archive or a
\* status file.
C29_TimerCancelledFirst ==
    [][~connected' =>
          /\ ~timerActive'
          /\ budget'.tick = budget.tick
          /\ \A i \in (Len(attempts) + 1)..Len(attempts') :
                attempts'[i].by # "highactivity"
          /\ \A k \in (Len(files) + 1)..Len(files') :
                files'[k].kind \notin {"partial", "status"}
      ]_vars
\* the finalization is at work, a buffer is at the high-activity mark and
\* the environment has a tick left to deliver
C29_Witness ==
    /\ ~connected
    /\ ~finished
    /\ budget.tick > 0
    /\ \E f \in pending : f.kind = "disconnect"
    /\ \E t \in Tabs :
          ContainerLength(networkEvents[t]) >= maxEventsBeforeFlush

\* C30: the disconnected handler goes through its steps whatever fails.
\* The step that starts it runs the forced memory check whether or not the
\* session directory exists; each later step of the handler makes its
\* attempt (a file written or an error reported) and hands over to the
\* next one: the final archives, then the final console logs, then the
\* summary, after which the handler ends.  Until it has ended, some
\* suspended function can always continue.
C30_StepsIndependentlyGuarded ==
    [][/\ (~connected /\ ~finished) =>
            \E f \in pending : Ready(Cur, f) /\ f.res.settled # "never"
       /\ (connected /\ ~connected') =>
            /\ \E g \in pending' : g.kind = "disconnect" /\ g.phase = "har"
            /\ \/ \E g \in pending' : g.kind = "memcheck" /\ g.force
               \/ out'.forcedDone > out.forcedDone
       /\ \A f \in pending :
            (/\ f.kind = "disconnect"
             /\ ~\E g \in pending' :
                   g.kind = "disconnect" /\ g.phase = f.phase) =>
               LET Wrote(kind) ==
                       \E k \in (Len(files) + 1)..Len(files') :
                           files'[k].kind = kind
               IN /\ f.phase = "har" =>
                       /\ Wrote("combinedhar") \/ out'.saveError > out.saveError
                       /\ \E g \in pending' :
                             g.kind = "disconnect" /\ g.phase = "logs"
                  /\ f.phase = "logs" =>
                       /\ Wrote("combinedcon") \/ out'.saveError > out.saveError
                       /\ \E g \in pending' :
                             g.kind = "disconnect" /\ g.phase = "summary"
                  /\ f.phase = "summary" =>
                       /\ Wrote("summary")
                            \/ out'.summaryError > out.summaryError
                       /\ finished'
      ]_vars
\* the handler has ended: a final write failed and was reported, and the
\* summary was written after it
C30_Witness ==
    /\ finished
    /\ out.saveError > 0
    /\ \E k \in DOMAIN files : files[k].kind = "summary"
C32_WriteSettles ==
    wOut.settled # "none" =>
        /\ wOut.settled \in {"resolved", "rejected"}
        /\ Len(wOut.attempts) <= 3
        /\ \A i, j \in 1..Len(wOut.attempts) :
              wOut.attempts[i].kind = wOut.attempts[j].kind => i = j

(***************************************************************************)
(* C33: running setupPageMonitoring again for a tab id that is already     *)
(* registered is a no-op: the tab's network buffer, its console records,   *)
(* its pages entry and the count of active tabs are what they were.        *)
(***************************************************************************)
C33_RegistrationIdempotent ==
    \A t \in Tabs :
        pages[t] # "none" =>
            LET s1 == Registration(Cur, t)
            IN /\ s1.ne[t] = networkEvents[t]
               /\ s1.cl[t] = consoleLogs[t]
               /\ s1.pg[t] = pages[t]
               /\ s1.ps.activeTabs = progressStats.activeTabs

(***************************************************************************)
(* The listeners on their own: events handled for a tab id whatever the    *)
(* registration has done for it.  The request listener reads its tab id    *)
(* from the frame of the request (lines 1817-1835); every listener tests   *)
(* for the tab's buffer before it stores (lines 1848, 2091, 2118, 2143).   *)
(***************************************************************************)
IngestBudget == Profile(Tabs, 2, 2, 0, 0, 1, 0)

InitIngest ==
    /\ InitPipeline
    /\ budget = IngestBudget
    /\ InitBA
    /\ InitWriter
    /\ InitFn

NextIngest ==
    \/ \E t \in Tabs : setupPageMonitoring(t)
    \/ \E t \in Tabs, u \in URLs : onRequest(t, u)
    \/ \E t \in Tabs, type \in ConsoleTypes, fails \in BOOLEAN :
          onConsole(t, type, fails)
    \/ \E t \in Tabs : onPageerror(t)
    \/ Resume

SpecIngest == InitIngest /\ [][NextIngest]_vars

(***************************************************************************)
(* C34: a request, console message or page error is stored and counted     *)
(* also when its tab has no buffer yet: the handler creates the buffer,    *)
(* the event is in it when the handler is done (or in the flush file the   *)
(* handler wrote), and the session count has gone up by one.               *)
(***************************************************************************)
C34_MissingBufferCreated ==
    [][/\ uniqueRequestId' # uniqueRequestId =>
            /\ progressStats'.networkEvents = progressStats.networkEvents + 1
            /\ \E t \in Tabs :
                  /\ networkEvents'[t].kind # "none"
                  /\ \E i \in 1..Len(networkEvents'[t].array) :
                        /\ networkEvents'[t].array[i].rid = uniqueRequestId'
                        /\ networkEvents'[t].array[i].pageref = t
       /\ (progressStats'.consoleLogs = progressStats.consoleLogs + 1
             /\ pending' = pending) =>
            \E t \in Tabs :
                /\ consoleLogs'[t].present
                /\ consoleLogs'[t].logs =
                      Append(consoleLogs[t].logs,
                             [type |-> "pageerror",
                              cid |-> progressStats'.consoleLogs])
       /\ \A f \in pending \ pending' :
            f.kind = "console" =>
                /\ consoleLogs'[f.tab].present
                /\ f.cid <= progressStats'.consoleLogs
                /\ \/ \E i \in 1..Len(consoleLogs'[f.tab].logs) :
                          consoleLogs'[f.tab].logs[i].cid = f.cid
                   \/ /\ Len(files') = Len(files) + 1
                      /\ \E i \in 1..Len(Last(files').doc.entries) :
                            Last(files').doc.entries[i].cid = f.cid
      ]_vars

\* an event was handled for a tab that no registration had prepared
C34_Witness ==
    \E t \in Tabs :
        /\ pages[t] = "none"
        /\ networkEvents[t].kind # "none"
        /\ Len(networkEvents[t].array) > 0
        /\ consoleLogs[t].present
        /\ \E i, j \in 1..Len(consoleLogs[t].logs) :
              /\ consoleLogs[t].logs[i].type = "pageerror"
              /\ consoleLogs[t].logs[j].type = "log"

(***************************************************************************)
(* C35: the console handler, when it has run for a message, has appended   *)
(* exactly one record to the tab's console buffer: the message, or a       *)
(* placeholder error record when reading the message threw.                *)
(* The buffer after the handler is the buffer before plus that record, or  *)
(* it is empty and the flush file the handler wrote holds exactly that.    *)
(***************************************************************************)
C35_OneRecordPerConsoleEvent ==
    [][\A f \in pending :
         (/\ f.kind = "console"
          /\ ~\E g \in pending' : g.kind = "console" /\ g.cid = f.cid)
         =>
         LET old == consoleLogs[f.tab].logs
             new == consoleLogs'[f.tab].logs
             rec == [type |-> IF f.fails THEN "error" ELSE f.type,
                     cid |-> f.cid]
         IN \/ new = Append(old, rec)
            \/ /\ new = <<>>
               /\ Len(files') = Len(files) + 1
               /\ Last(files').kind = "conflush"
               /\ Last(files').tab = f.tab
               /\ Last(files').doc.entries = Append(old, rec)
      ]_vars

\* a message whose capture failed and one whose capture succeeded are both
\* in the tab's buffer
C35_Witness ==
    \E t \in Tabs :
        \E i, j \in 1..Len(consoleLogs[t].logs) :
            /\ consoleLogs[t].logs[i].type = "error"
            /\ consoleLogs[t].logs[j].type = "log"
            /\ ~\E f \in pending : f.kind = "console"

(***************************************************************************)
(* C36: the step that closes a tab marks its pages entry closed and leaves *)
(* the tab's network buffer, console buffer and url map as they are; and   *)
(* no step removes a registered tab from pages, from networkEvents or from *)
(* consoleLogs.                                                            *)
(***************************************************************************)
C36_ClosedTabKept ==
    [][\A t \in Tabs :
         /\ (pages[t] = "open" /\ pages'[t] # "open") =>
               /\ pages'[t] = "closed"
               /\ networkEvents'[t] = networkEvents[t]
               /\ consoleLogs'[t] = consoleLogs[t]
               /\ requestUrlMaps'[t] = requestUrlMaps[t]
               /\ netOrder' = netOrder
               /\ conOrder' = conOrder
         /\ pages[t] # "none" =>
               /\ pages'[t] # "none"
               /\ networkEvents'[t].kind # "none"
               /\ consoleLogs'[t].present
      ]_vars

\* a closed tab with a request and a console record still buffered
C36_Witness ==
    \E t \in Tabs :
        /\ pages[t] = "closed"
        /\ Len(networkEvents[t].array) > 0
        /\ Len(consoleLogs[t].logs) > 0

(***************************************************************************)
(* C37: a step in which tab A is flushed (network or console) and tab B is *)
(* not leaves B's network buffer, console buffer, url map and flush        *)
(* counters as they are; and while a flush of A is awaited, a request of   *)
(* another registered tab B can be handled.                                *)
(***************************************************************************)
FlushedTabs ==
    {attempts'[i].tab : i \in {j \in 1..Len(attempts') :
                                  j > Len(attempts) \/ attempts'[j] # attempts[j]}}

C37_FlushLeavesOtherTabs ==
    [][/\ \A B \in Tabs :
            (FlushedTabs # {} /\ B \notin FlushedTabs) =>
                /\ networkEvents'[B] = networkEvents[B]
                /\ consoleLogs'[B] = consoleLogs[B]
                /\ requestUrlMaps'[B] = requestUrlMaps[B]
                /\ flushStats'.perTabNetworkEventsFlushed[B] =
                      flushStats.perTabNetworkEventsFlushed[B]
                /\ flushStats'.totalConsoleLogsFlushed[B] =
                      flushStats.totalConsoleLogsFlushed[B]
       /\ \A A, B \in Tabs :
            (/\ A # B
             /\ FlushAwaited(Cur, A)
             /\ connected /\ pages[B] = "open" /\ budget.req > 0)
            => ENABLED (\E u \in URLs : request(B, u))
      ]_vars

\* a flush of A has been attempted and is still awaited by its caller, and
\* B holds a request and the url map entry made for it
C37_Witness ==
    \E A, B \in Tabs :
        /\ A # B
        /\ FlushAwaited(Cur, A)
        /\ \E i \in 1..Len(attempts) : attempts[i].tab = A
        /\ Len(networkEvents[B].array) > 0
        /\ requestUrlMaps[B]["u1"] # -1

(***************************************************************************)
(* C39: progressStats.consoleLogs is the number of console records         *)
(* captured: once every console handler that was started has stored its    *)
(* record, it equals the records in the tabs' console buffers plus the     *)
(* records in the console flush files written, each record counted once,   *)
(* also a record stored by the handler's catch.                            *)
(***************************************************************************)
C39_ConsoleCountMatchesRecords ==
    (~\E f \in pending : f.kind = "console") =>
        progressStats.consoleLogs =
            SumOver([t \in Tabs |-> Len(consoleLogs[t].logs)], Tabs)
            + SumOver([i \in 1..Len(files) |->
                          IF files[i].kind = "conflush"
                          THEN Len(files[i].doc.entries) ELSE 0],
                      1..Len(files))

(***************************************************************************)
(* C40: every value stored in a tab's url map is a request entry held in   *)
(* the tab's network buffer at that moment.  A stored value is named by    *)
(* the request id of the entry it refers to; 0 stands for a stored         *)
(* undefined, -1 for a url without key.                                    *)
(***************************************************************************)
C40_IndexRefersToBuffer ==
    \A t \in Tabs, u \in AllURLs :
        requestUrlMaps[t][u] # -1 =>
            \E k \in DOMAIN networkEvents[t].array :
                networkEvents[t].array[k].rid = requestUrlMaps[t][u]

====
